---------------------------- MODULE Spec2Model ----------------------------
(***************************************************************************)
(* State machine of the Streamlit script src/app.py: the session-state     *)
(* dataset pipeline (uploaded_df / cleaned_df / df) and the cleaning       *)
(* memory log.                                                             *)
(*                                                                         *)
(* Every user interaction runs the script once, top to bottom.  A run is   *)
(* two steps of the machine: Rerun takes the sidebar choice and resolves   *)
(* the dataset (lines 88-113), and the branch of the choice then runs with *)
(* the file in the uploader and the clicked button as its inputs.          *)
(*                                                                         *)
(* DataFrames are mutable Python objects held by reference, so the model   *)
(* keeps a heap (object id -> contents) and the session slots hold object  *)
(* ids.  A DataFrame is modelled by its single numeric column "x", a       *)
(* sequence of cells, each a number or NaN.                                *)
(*                                                                         *)
(* Reading of the source.  As written, app.py lines 127-141 pair a `try`   *)
(* with an `except` at a different indentation, line 123 calls a name      *)
(* (upload_data) that is never bound, and the menu entry "Data Cleaning"   *)
(* (line 77) has no branch header: the block at lines 145-183 has lost the *)
(* lines that introduce it.  The model reads the file as two handlers:     *)
(*   - the upload branch, lines 122-142, with the try/except paired;       *)
(*   - the cleaning block, lines 145-183, run for the "Data Cleaning"      *)
(*     choice on the current dataset (CleaningInput below, taken from the  *)
(*     specification because the binding of `df` is not in the file).      *)
(* The cleaning block is modelled exactly as its lines read: it holds no   *)
(* guard on a missing dataset and no warning.                              *)
(***************************************************************************)
EXTENDS Integers, Sequences, FiniteSets, TLC

VARIABLES
    pc,             \* "idle" between runs, "stage" once a run reached line 118
    session_state,  \* st.session_state: key -> None or object name
    heap,           \* live DataFrame objects: object name -> contents
    memory,         \* utils.memory store: key -> value
    choice,         \* sidebar choice of the run (line 88)
    uploaded_file,  \* file the upload branch worked on in the run (line 121)
    button,         \* button whose click triggered the run
    cols_to_scale,  \* selection of the multiselect in the run (line 155)
    steps,          \* what recall returned at line 175 in the run
    ui,             \* message the stage showed in the run
    calls           \* downstream library call the stage made in the run

vars ==
    <<pc, session_state, heap, memory, choice, uploaded_file, button,
      cols_to_scale, steps, ui, calls>>

-----------------------------------------------------------------------------
(* Bounds *)

MaxRows == 2

-----------------------------------------------------------------------------
(* Values *)

\* Python's None as the value of a session key (line 103).
None == 0

\* A missing cell of a DataFrame (what dropna removes, line 149).
NaN == -1

\* Cells are fixed-point numbers: One stands for 1.0, so that the quotients
\* of the min-max scaling of line 161 are exact for the files below.
One == 6

NoCall == <<>>

\* The session keys that hold a DataFrame (lines 93, 95, 137, 166).
SessionKeys == <<"cleaned_df", "uploaded_df", "df">>

\* Names of the live DataFrame objects: at most one per session key.
ObjIds == 1..Len(SessionKeys)

\* What pd.read_csv / pd.read_excel can return: the files tried have one to
\* MaxRows data rows, and row i of column x holds the number i or is blank.
ParsedDatasets ==
    UNION {{s \in [1..n -> {NaN} \cup {i * One : i \in 1..n}] :
               \A i \in 1..n : s[i] \in {NaN, i * One}} : n \in 1..MaxRows}

Menu ==
    {"Upload Dataset", "Data Cleaning", "Exploratory Data Analysis",
     "Visualization", "Feature Engineering & Modeling", "Evaluation & Tuning",
     "Export Dataset", "Generate Report", "Power BI", "Dashboard"}

\* The uploader's value (line 121): no file, or a file with the suffix of
\* its name, whether the parser can read it, and the rows it then yields.
\* ".CSV" stands for any name that the case-sensitive endswith tests of
\* lines 128 and 130 reject.
NoFile == [ext |-> "", readable |-> FALSE, data |-> <<>>]

Files ==
    {NoFile}
    \cup [ext : {".csv", ".xlsx"}, readable : {TRUE}, data : ParsedDatasets]
    \cup [ext : {".csv", ".xlsx"}, readable : {FALSE}, data : {<<>>}]
    \cup [ext : {".CSV"}, readable : BOOLEAN, data : {<<>>}]

\* st.button returns True only in the run its own click triggered, so at
\* most one of the three buttons of the cleaning block is True in a run.
Buttons == {"none", "Drop Missing Values", "Normalize Selected Columns", "Clear Memory"}

\* The multiselect of line 155 over the numeric columns.
ColumnChoices == {<<>>, <<"x">>}

WarnUploadFirst == "Please upload a dataset first."

WarnUploadClean == "Please upload and clean your dataset first."

WarnReport == "Upload and clean a dataset before generating the report."

Warnings ==
    {WarnUploadFirst, WarnUploadClean, WarnReport, "Please upload a CSV or Excel file."}

-----------------------------------------------------------------------------
(* Session state *)

Has(ss, k) == k \in DOMAIN ss

Set(ss, k, v) == [j \in DOMAIN ss \cup {k} |-> IF j = k THEN v ELSE ss[j]]

\* Lines 92-105: the dataset handed to the stage.  refresh_data (line 97,
\* utils.refresh, not in src/) is taken to leave the session keys alone.
ResolveCached(ss) ==
    IF Has(ss, "df") /\ ss["df"] # None THEN ss
    ELSE IF Has(ss, "uploaded_df") THEN Set(ss, "df", ss["uploaded_df"])
    ELSE Set(ss, "df", None)

Resolve(ss) ==
    LET s1 == IF Has(ss, "uploaded_df") THEN Set(ss, "df", ss["uploaded_df"]) ELSE ss
        s2 == IF Has(s1, "cleaned_df") THEN Set(s1, "df", s1["cleaned_df"]) ELSE s1
        s3 == IF ~Has(s2, "df") THEN Set(s2, "df", None) ELSE s2
    IN  IF Has(s3, "cleaned_df") THEN Set(s3, "df", s3["cleaned_df"]) ELSE s3

Refs(ss) == {ss[k] : k \in DOMAIN ss} \cap ObjIds

\* Object names carry no meaning, only which keys share an object does.  At
\* the end of a run the objects no key refers to are collected and the live
\* ones are named 1, 2, ... in the order of SessionKeys.
FirstKey(ss, r) ==
    CHOOSE n \in DOMAIN SessionKeys :
        /\ Has(ss, SessionKeys[n]) /\ ss[SessionKeys[n]] = r
        /\ \A m \in 1..(n - 1) : ~(Has(ss, SessionKeys[m]) /\ ss[SessionKeys[m]] = r)

Name(ss, r) == Cardinality({q \in Refs(ss) : FirstKey(ss, q) <= FirstKey(ss, r)})

CollectSession(ss) ==
    [k \in DOMAIN ss |-> IF ss[k] = None THEN None ELSE Name(ss, ss[k])]

Collect(h, ss) ==
    [i \in 1..Cardinality(Refs(ss)) |-> h[CHOOSE r \in Refs(ss) : Name(ss, r) = i]]

NewRef(h) == CHOOSE i \in ObjIds \ DOMAIN h : \A j \in ObjIds \ DOMAIN h : i <= j

Alloc(h, i, data) == [j \in DOMAIN h \cup {i} |-> IF j = i THEN data ELSE h[j]]

-----------------------------------------------------------------------------
(* utils.memory (not in src/): remember replaces the value of the key,     *)
(* recall returns the value or nothing, clear_all_memory empties the log.  *)

Remember(mem, k, v) == [j \in DOMAIN mem \cup {k} |-> IF j = k THEN v ELSE mem[j]]

\* The result as an option: <<v>> for a stored value, <<>> for none.
Recall(mem, k) == IF k \in DOMAIN mem THEN <<mem[k]>> ELSE <<>>

ClearAllMemory(mem) == [j \in {} |-> <<>>]

-----------------------------------------------------------------------------
(* Upload branch, lines 122-142 *)

\* Lines 127-134 and 141: the outcome of the try body; df is an option,
\* <<>> for None.  The value line 123 gives df is overwritten before it is
\* read (upload_data is not bound in the file and is left out).
ReadFileLenient(f) ==
    IF f.ext \in {".csv", ".xlsx"}
    THEN [raised |-> FALSE, df |-> <<f.data>>]
    ELSE [raised |-> FALSE, df |-> <<>>]

ReadFile(f) ==
    IF f.ext \in {".csv", ".xlsx"}
    THEN IF f.readable
         THEN [raised |-> FALSE, df |-> <<f.data>>]
         ELSE [raised |-> TRUE, df |-> <<>>]
    ELSE [raised |-> FALSE, df |-> <<>>]

\* Line 137.
SetUploadedReset(ss, ref) ==
    LET s == Set(ss, "uploaded_df", ref)
    IN  [k \in DOMAIN s \ {"cleaned_df"} |-> s[k]]

SetUploaded(ss, ref) == Set(ss, "uploaded_df", ref)

UploadMessage(f, r) ==
    IF f = NoFile THEN ""
    ELSE IF r.raised THEN "Error reading file"
    ELSE IF r.df = <<>> THEN "Please upload a CSV or Excel file."
    ELSE "File uploaded and saved successfully!"

UploadDataset ==
    \E f \in Files :
        LET r == ReadFile(f)
            commit == f # NoFile /\ ~r.raised /\ r.df # <<>>
            ref == NewRef(heap)
            ss2 == IF commit THEN SetUploaded(session_state, ref) ELSE session_state
            h2 == IF commit THEN Alloc(heap, ref, r.df[1]) ELSE heap
        IN  /\ pc = "stage" /\ choice = "Upload Dataset"
            /\ pc' = "idle"
            /\ uploaded_file' = f
            /\ session_state' = CollectSession(ss2)
            /\ heap' = Collect(h2, ss2)
            /\ ui' = UploadMessage(f, r)
            /\ UNCHANGED <<memory, choice, button, cols_to_scale, steps, calls>>

-----------------------------------------------------------------------------
(* Cleaning block, lines 145-183 *)

\* The dataset the block works on.  The line that binds `df` is not in the
\* file; the specification's cleaning stage reads the current dataset.
CleaningInput(ss) == ss["df"]

\* df.dropna(inplace=True), line 149: rows with a missing cell go.
RECURSIVE DropFirstNa(_)
DropFirstNa(data) ==
    IF data = <<>> THEN <<>>
    ELSE IF Head(data) = NaN THEN Tail(data)
    ELSE <<Head(data)>> \o DropFirstNa(Tail(data))

DropNa(data) == SelectSeq(data, LAMBDA c : c # NaN)

Present(col) == {col[i] : i \in DOMAIN col} \ {NaN}

Min(S) == CHOOSE m \in S : \A x \in S : m <= x

Max(S) == CHOOSE m \in S : \A x \in S : m >= x

\* Lines 158-161 for one column: min and max skip missing cells; a column
\* whose max equals its min divides 0 by 0 and becomes all NaN.
NormalizeColumn(col) ==
    IF Present(col) = {} \/ Max(Present(col)) = Min(Present(col))
    THEN [i \in DOMAIN col |-> NaN]
    ELSE LET lo == Min(Present(col))
             hi == Max(Present(col))
         IN  [i \in DOMAIN col |->
                 IF col[i] = NaN THEN NaN ELSE ((col[i] - lo) * One) \div (hi - lo)]

Normalize(data, cols) == IF cols = <<>> THEN data ELSE NormalizeColumn(data)

\* Line 162.
NormalizeDescription(cols) ==
    IF cols = <<>> THEN "Normalized columns: " ELSE "Normalized columns: x"

\* Lines 145-163: the dataset after the operation of this run.
Cleaned(data, b, cols) ==
    IF b = "Drop Missing Values" THEN DropNa(data)
    ELSE IF b = "Normalize Selected Columns" THEN Normalize(data, cols)
    ELSE data

\* Lines 145, 150, 162: the descriptions collected in this run.
CleaningSteps(b, cols) ==
    IF b = "Drop Missing Values" THEN <<"Dropped missing values">>
    ELSE IF b = "Normalize Selected Columns" THEN <<NormalizeDescription(cols)>>
    ELSE <<>>

\* Line 166.
SetCleanedIfSteps(ss, ref, cleaning_steps) ==
    IF cleaning_steps # <<>> THEN Set(ss, "cleaned_df", ref) ELSE ss

SetCleaned(ss, ref, cleaning_steps) == Set(ss, "cleaned_df", ref)

\* Lines 169-170.
MemoryLogicAppend(mem, cleaning_steps) ==
    IF cleaning_steps # <<>>
    THEN Remember(mem, "cleaning_steps",
                  (IF Has(mem, "cleaning_steps") THEN mem["cleaning_steps"] ELSE <<>>)
                      \o cleaning_steps)
    ELSE mem

MemoryLogicAlways(mem, cleaning_steps) == Remember(mem, "cleaning_steps", cleaning_steps)

MemoryLogic(mem, cleaning_steps) ==
    IF cleaning_steps # <<>> THEN Remember(mem, "cleaning_steps", cleaning_steps) ELSE mem

\* Lines 181-183.
ClearLogic(mem, b) == IF b = "Clear Memory" THEN ClearAllMemory(mem) ELSE mem

CleaningMessage(b) ==
    IF b = "Drop Missing Values" THEN "Missing values removed!"
    ELSE IF b = "Normalize Selected Columns" THEN "Selected columns normalized!"
    ELSE IF b = "Clear Memory" THEN "Memory cleared."
    ELSE ""

DataCleaning ==
    \E b \in Buttons, cols \in ColumnChoices :
        LET ref == CleaningInput(session_state)
        IN  /\ pc = "stage" /\ choice = "Data Cleaning"
            /\ pc' = "idle"
            /\ button' = b
            /\ cols_to_scale' = cols
            /\ IF ref = None
               THEN \* df.dropna / df.select_dtypes on None (lines 149, 154)
                    /\ ui' = "AttributeError"
                    /\ UNCHANGED <<session_state, heap, memory, steps>>
               ELSE LET cleaning_steps == CleaningSteps(b, cols)
                        ss2 == SetCleaned(session_state, ref, cleaning_steps)
                        h2 == [heap EXCEPT ![ref] = Cleaned(heap[ref], b, cols)]
                        mem2 == MemoryLogic(memory, cleaning_steps)
                    IN  /\ session_state' = CollectSession(ss2)
                        /\ heap' = Collect(h2, ss2)
                        /\ steps' = Recall(mem2, "cleaning_steps")
                        /\ memory' = ClearLogic(mem2, b)
                        /\ ui' = CleaningMessage(b)
            /\ UNCHANGED <<choice, uploaded_file, calls>>

-----------------------------------------------------------------------------
(* Stages that consume the dataset, lines 186-248 *)

\* The guard `st.session_state.df is not None` and the call under it.  The
\* libraries called are not in src/; they are taken to read the dataset only,
\* as the report stage does (lines 233-246).
StageCallUnguarded(name, ss) == <<name, ss["df"]>>

StageCall(name, ss) == IF ss["df"] # None THEN <<name, ss["df"]>> ELSE NoCall

\* The guard `"cleaned_df" in st.session_state` (lines 214, 222).
CleanedStageCall(name, ss) ==
    IF Has(ss, "cleaned_df") THEN <<name, ss["cleaned_df"]>> ELSE NoCall

Stage(menu, call, warning) ==
    /\ pc = "stage" /\ choice = menu
    /\ pc' = "idle"
    /\ calls' = call
    /\ ui' = IF call = NoCall THEN warning ELSE ""
    /\ UNCHANGED <<session_state, heap, memory, choice, uploaded_file, button,
                   cols_to_scale, steps>>

ExploratoryDataAnalysis ==
    Stage("Exploratory Data Analysis", StageCall("run_eda", session_state), WarnUploadFirst)

Visualization ==
    Stage("Visualization", StageCall("show_visuals", session_state), WarnUploadFirst)

Modeling ==
    Stage("Feature Engineering & Modeling", StageCall("run_modeling", session_state),
          WarnUploadFirst)

ExportDataset ==
    Stage("Export Dataset", StageCall("export_data", session_state), WarnUploadFirst)

GenerateReport ==
    Stage("Generate Report", StageCall("describe", session_state), WarnReport)

PowerBI ==
    Stage("Power BI", CleanedStageCall("powerbi_pipeline", session_state), WarnUploadClean)

Dashboard ==
    Stage("Dashboard", CleanedStageCall("live_dashboard", session_state), WarnUploadClean)

\* Lines 204-205.
EvaluationTuning ==
    /\ pc = "stage" /\ choice = "Evaluation & Tuning"
    /\ pc' = "idle"
    /\ ui' = "Model evaluation & tuning is handled during modeling."
    /\ UNCHANGED <<session_state, heap, memory, choice, uploaded_file, button,
                   cols_to_scale, steps, calls>>

-----------------------------------------------------------------------------
(* Start of a run, lines 88-113 *)

Rerun ==
    \E c \in Menu :
        LET ss1 == Resolve(session_state)
        IN  /\ pc = "idle"
            /\ pc' = "stage"
            /\ choice' = c
            /\ session_state' = CollectSession(ss1)
            /\ heap' = Collect(heap, ss1)
            /\ uploaded_file' = NoFile
            /\ button' = "none"
            /\ cols_to_scale' = <<>>
            /\ steps' = <<>>
            /\ ui' = ""
            /\ calls' = NoCall
            /\ UNCHANGED memory

-----------------------------------------------------------------------------
Init ==
    /\ pc = "idle"
    /\ session_state = [k \in {} |-> None]
    /\ heap = [i \in {} |-> <<>>]
    /\ memory = [k \in {} |-> <<>>]
    /\ choice = "Upload Dataset"
    /\ uploaded_file = NoFile
    /\ button = "none"
    /\ cols_to_scale = <<>>
    /\ steps = <<>>
    /\ ui = ""
    /\ calls = NoCall

Next ==
    \/ Rerun
    \/ UploadDataset
    \/ DataCleaning
    \/ ExploratoryDataAnalysis
    \/ Visualization
    \/ Modeling
    \/ EvaluationTuning
    \/ ExportDataset
    \/ GenerateReport
    \/ PowerBI
    \/ Dashboard

Spec == Init /\ [][Next]_vars

-----------------------------------------------------------------------------
(* Vocabulary of the properties *)

\* The current dataset as the specification defines it: cleaned if it
\* exists, otherwise uploaded, otherwise none.
Current(ss) ==
    IF Has(ss, "cleaned_df") THEN ss["cleaned_df"]
    ELSE IF Has(ss, "uploaded_df") THEN ss["uploaded_df"]
    ELSE None

\* The rows a session key holds, as an option.
Contents(h, ss, k) == IF Has(ss, k) /\ ss[k] # None THEN <<h[ss[k]]>> ELSE <<>>

\* The step in which the branch of the choice runs.
StageStep == pc = "stage" /\ pc' = "idle"

Consumers ==
    {"Exploratory Data Analysis", "Visualization", "Feature Engineering & Modeling",
     "Export Dataset", "Generate Report", "Power BI", "Dashboard"}

Operations == {"Drop Missing Values", "Normalize Selected Columns"}

NoMissing(data) == \A i \in DOMAIN data : data[i] # NaN

-----------------------------------------------------------------------------
(* Properties *)

\* C1: at every stage entry the session df is the cleaned dataset if one
\* exists, otherwise the uploaded dataset if one exists, otherwise None; it
\* is recomputed from the two slots and never left over from an earlier run.
C1_CurrentAtStageEntry ==
    pc = "stage" =>
        /\ Has(session_state, "df")
        /\ session_state["df"] = Current(session_state)

\* C1 witness: a stage is entered with a cleaned dataset and a different,
\* later uploaded dataset, and is handed the cleaned one.
C1_Witness ==
    /\ pc = "stage"
    /\ Has(session_state, "cleaned_df") /\ Has(session_state, "uploaded_df")
    /\ session_state["uploaded_df"] # session_state["cleaned_df"]
    /\ session_state["df"] = session_state["cleaned_df"]

\* C2: a dataset-consuming stage entered while the current dataset is absent
\* only shows a warning, makes no downstream library call and leaves
\* uploaded, cleaned and the memory log unchanged.
C2_ConsumerGuard ==
    [][(StageStep /\ choice \in Consumers /\ Current(session_state) = None)
        => /\ ui' \in Warnings
           /\ calls' = NoCall
           /\ session_state' = session_state
           /\ heap' = heap
           /\ memory' = memory]_vars

\* C2 witness: the Power BI stage has run with no dataset and warned.
C2_Witness ==
    /\ pc = "idle" /\ choice = "Power BI"
    /\ Current(session_state) = None
    /\ ui = WarnUploadClean /\ calls = NoCall

\* C3: the cleaning block run while the current dataset is absent aborts with
\* a user-visible warning, commits no cleaned dataset and leaves the memory
\* log unchanged.
C3_CleaningAbsentWarns ==
    [][(StageStep /\ choice = "Data Cleaning" /\ Current(session_state) = None)
        => /\ ui' \in Warnings
           /\ ~Has(session_state', "cleaned_df")
           /\ memory' = memory]_vars

\* C4: a failed upload (a name ending in neither .csv nor .xlsx, or a parse
\* that raises) leaves the uploaded and the cleaned slot holding exactly
\* what they held before.
C4_FailedUploadCommitsNothing ==
    [][(/\ StageStep /\ choice = "Upload Dataset"
        /\ uploaded_file' # NoFile
        /\ (uploaded_file'.ext \notin {".csv", ".xlsx"} \/ ~uploaded_file'.readable))
        => /\ session_state' = session_state
           /\ heap' = heap]_vars

\* C4 witness: a parse error was reported while a dataset was loaded.
C4_Witness ==
    /\ pc = "idle" /\ choice = "Upload Dataset"
    /\ ui = "Error reading file"
    /\ Has(session_state, "uploaded_df")

\* C5: a successful upload puts the newly parsed dataset in the uploaded
\* slot and neither creates, replaces nor removes the cleaned slot: a cleaned
\* dataset that existed before is the same afterwards.
C5_UploadKeepsCleaned ==
    [][(/\ StageStep /\ choice = "Upload Dataset"
        /\ uploaded_file'.ext \in {".csv", ".xlsx"} /\ uploaded_file'.readable)
        => /\ Contents(heap', session_state', "uploaded_df") = <<uploaded_file'.data>>
           /\ Has(session_state', "cleaned_df") <=> Has(session_state, "cleaned_df")
           /\ Contents(heap', session_state', "cleaned_df")
                  = Contents(heap, session_state, "cleaned_df")
           /\ Has(session_state', "cleaned_df")
                  => session_state'["cleaned_df"] # session_state'["uploaded_df"]]_vars

\* C5 witness: an upload has succeeded while a cleaned dataset exists.
C5_Witness ==
    /\ pc = "idle" /\ choice = "Upload Dataset"
    /\ ui = "File uploaded and saved successfully!"
    /\ Has(session_state, "cleaned_df")
    /\ Contents(heap, session_state, "cleaned_df")
           # Contents(heap, session_state, "uploaded_df")

\* C6: the contents of the uploaded dataset change only through an upload:
\* no other step, the cleaning operations included, alters the rows and
\* values the uploaded slot holds.
C6_UploadedChangesOnlyByUpload ==
    [][~(StageStep /\ choice = "Upload Dataset")
        => Contents(heap', session_state', "uploaded_df")
               = Contents(heap, session_state, "uploaded_df")]_vars

\* C7 as stated: a run of the cleaning block in which neither operation
\* button is pressed never makes a cleaned dataset exist.
C7_NoOperationNoCleaned ==
    [][(/\ StageStep /\ choice = "Data Cleaning"
        /\ button' \notin Operations
        /\ ~Has(session_state, "cleaned_df"))
        => ~Has(session_state', "cleaned_df")]_vars

\* C7 amended: the cleaned slot is absent until the first run of the cleaning
\* block on a loaded dataset, and that run creates it whether or not an
\* operation button was pressed.
C7_CleanedCreatedByCleaningRun ==
    [][~Has(session_state, "cleaned_df")
        => (Has(session_state', "cleaned_df")
              <=> (StageStep /\ choice = "Data Cleaning"
                   /\ Current(session_state) # None))]_vars

\* C7 witness: the cleaning block has run with no button pressed and a
\* cleaned dataset exists.
C7_Witness ==
    /\ pc = "idle" /\ choice = "Data Cleaning" /\ button = "none"
    /\ ui # "AttributeError"
    /\ Has(session_state, "cleaned_df")
    /\ ~Has(memory, "cleaning_steps")

\* C8: after a cleaning run that applies an operation, recall("cleaning_steps")
\* returns exactly the descriptions of the operations of that run, in order,
\* and none of an earlier run.
C8_StepsReplaced ==
    [][(/\ StageStep /\ choice = "Data Cleaning"
        /\ button' \in Operations
        /\ Current(session_state) # None)
        => LET applied ==
                   IF button' = "Drop Missing Values"
                   THEN <<"Dropped missing values">>
                   ELSE <<NormalizeDescription(cols_to_scale')>>
           IN  /\ steps' = <<applied>>
               /\ Recall(memory', "cleaning_steps") = <<applied>>]_vars

\* C8 witness: a normalize run has stored its one description.
C8_Witness ==
    /\ pc = "idle" /\ choice = "Data Cleaning"
    /\ button = "Normalize Selected Columns"
    /\ steps = << <<"Normalized columns: x">> >>
    /\ Recall(memory, "cleaning_steps") = steps

\* C9: drop-missing-values leaves a dataset with no missing values unchanged,
\* and applying it to its own result yields that result again.
C9_DropIdempotent ==
    [][(/\ StageStep /\ choice = "Data Cleaning"
        /\ button' = "Drop Missing Values"
        /\ Current(session_state) # None)
        => LET before == heap[Current(session_state)]
               after == heap'[session_state'["cleaned_df"]]
           IN  /\ NoMissing(before) => after = before
               /\ DropNa(after) = after
               /\ Len(after) <= Len(before)]_vars

\* C9 witness: a drop run has removed every row of a dataset whose rows all
\* had a missing cell.
C9_Witness ==
    /\ pc = "idle" /\ choice = "Data Cleaning"
    /\ button = "Drop Missing Values"
    /\ Contents(heap, session_state, "cleaned_df") = << <<>> >>

=============================================================================
